---- MODULE Spec2Model ----
(***************************************************************************)
(* Model of the dashboard controller src/hedgbot/app/static/app.js: the    *)
(* API client, the per-card handlers (tabs, stop-loss rows, config form,   *)
(* status actions, log refresh) and the global start-all / stop-all        *)
(* controls.  The DOM is the state; the backend and the user are the       *)
(* environment.                                                            *)
(*                                                                         *)
(* Texts (input values) are sequences of one-character strings, so that    *)
(* trim, parseFloat and number formatting are computed, not assumed.       *)
(* Numbers are fixed-point: the integer n stands for n / 100.              *)
(***************************************************************************)
EXTENDS Integers, Sequences, FiniteSets, TLC

VARIABLES
    cards,      \* the page: symbol of each rendered card -> the card's DOM state
    pending,    \* API calls in flight (awaited by a handler), in issue order
    modal,      \* the blocking dialog (alert / confirm) that is open, or NoModal
    lastCall,   \* the API client method invoked by the latest handler step, or NoCall
    fetched,    \* API.request in isolation: the method called and what fetch gave
    settled     \* API.request in isolation: how the returned promise settled

vars == <<cards, pending, modal, lastCall, fetched, settled>>

----------------------------------------------------------------------------
(* JavaScript values                                                       *)

Null == [type |-> "null"]
NaN == [type |-> "NaN"]
Num(n) == [type |-> "number", val |-> n]
IsNum(v) == v.type = "number"

(* Texts                                                                   *)

DigitChars == <<"0", "1", "2", "3", "4", "5", "6", "7", "8", "9">>
IsDigit(ch) == \E d \in 1..Len(DigitChars) : DigitChars[d] = ch
DigitVal(ch) == (CHOOSE d \in 1..Len(DigitChars) : DigitChars[d] = ch) - 1
DigitChar(d) == DigitChars[d + 1]
IsSpace(ch) == ch = " "

RECURSIVE TrimStart(_)
TrimStart(s) ==
    IF s # <<>> /\ IsSpace(Head(s)) THEN TrimStart(Tail(s)) ELSE s

RECURSIVE TrimEnd(_)
TrimEnd(s) ==
    IF s # <<>> /\ IsSpace(s[Len(s)]) THEN TrimEnd(SubSeq(s, 1, Len(s) - 1)) ELSE s

\* String.prototype.trim
Trim(s) == TrimEnd(TrimStart(s))

RECURSIVE DigitPrefix(_)
DigitPrefix(s) ==
    IF s # <<>> /\ IsDigit(Head(s)) THEN <<Head(s)>> \o DigitPrefix(Tail(s)) ELSE <<>>

RECURSIVE DigitsVal(_)
DigitsVal(ds) ==
    IF ds = <<>> THEN 0
    ELSE DigitsVal(SubSeq(ds, 1, Len(ds) - 1)) * 10 + DigitVal(ds[Len(ds)])

RECURSIVE Digits(_)
Digits(k) ==
    IF k < 10 THEN <<DigitChar(k)>> ELSE Digits(k \div 10) \o <<DigitChar(k % 10)>>

\* The hundredths a fraction's digits stand for (digits past the second are
\* below the model's resolution).
Hundredths(fp) ==
    (IF Len(fp) >= 1 THEN DigitVal(fp[1]) * 10 ELSE 0)
    + (IF Len(fp) >= 2 THEN DigitVal(fp[2]) ELSE 0)

\* parseFloat: leading white space skipped, an optional sign, the longest
\* decimal prefix; NaN when there is none.
ParseFloat(s) ==
    LET t == TrimStart(s)
        signed == t # <<>> /\ Head(t) \in {"-", "+"}
        neg == t # <<>> /\ Head(t) = "-"
        u == IF signed THEN Tail(t) ELSE t
        ip == DigitPrefix(u)
        rest == SubSeq(u, Len(ip) + 1, Len(u))
        fp == IF rest # <<>> /\ Head(rest) = "." THEN DigitPrefix(Tail(rest)) ELSE <<>>
        mag == DigitsVal(ip) * 100 + Hundredths(fp)
    IN  IF ip = <<>> /\ fp = <<>> THEN NaN
        ELSE Num(IF neg THEN 0 - mag ELSE mag)

\* String(number) of a fixed-point number: no trailing zeros, no bare point.
NumToText(n) ==
    LET a == IF n < 0 THEN 0 - n ELSE n
        frac == a % 100
        body == Digits(a \div 100)
                \o (IF frac = 0 THEN <<>>
                    ELSE IF frac % 10 = 0 THEN <<".", DigitChar(frac \div 10)>>
                    ELSE <<".", DigitChar(frac \div 10), DigitChar(frac % 10)>>)
    IN  (IF n < 0 THEN <<"-">> ELSE <<>>) \o body

\* Number.prototype.toFixed(2)
ToFixed2(n) ==
    LET a == IF n < 0 THEN 0 - n ELSE n
        frac == a % 100
    IN  (IF n < 0 THEN <<"-">> ELSE <<>>)
        \o Digits(a \div 100) \o <<".", DigitChar(frac \div 10), DigitChar(frac % 10)>>

\* ValueText with `v || ""` for `v ?? ""`: a zero shows as empty too.
ValueTextZeroBlank(v) == IF IsNum(v) /\ v.val # 0 THEN NumToText(v.val) ELSE <<>>

\* The text an input shows after `input.value = v` (null shows as empty).
ValueText(v) == IF IsNum(v) THEN NumToText(v.val) ELSE <<>>

----------------------------------------------------------------------------
(* API client                                                              *)

NetworkFailure == [type |-> "network-failure"]
Unparseable == [type |-> "unparseable"]
Json(v) == [type |-> "json", value |-> v]
Response(status, statusText, body) ==
    [type |-> "response", status |-> status, statusText |-> statusText, body |-> body]

\* Response.ok
Ok(response) == response.status \in 200..299

Fulfilled(v) == [state |-> "fulfilled", value |-> v]
Rejected(message) == [state |-> "rejected", message |-> message]
Unsettled == [state |-> "pending"]

FetchFailedMessage == "Failed to fetch"
JsonSyntaxMessage == "Unexpected end of JSON input"
\* The generic fallback of line 9, transliterated (the module is ASCII).
FallbackMessage == "Oshibka zaprosa"

EmptyObject == [type |-> "object"]

\* response.json(): the parsed body, or a rejection.
ResponseJson(response) ==
    IF response.body = Unparseable THEN Rejected(JsonSyntaxMessage)
    ELSE Fulfilled(response.body.value)

\* obj.detail of a parsed error body ("" stands for undefined: both are falsy)
DetailOf(obj) == IF "detail" \in DOMAIN obj THEN obj.detail ELSE ""

\* API.request without the 204 test of lines 12-14.
requestNo204(got) ==
    IF got = NetworkFailure THEN Rejected(FetchFailedMessage)
    ELSE IF ~Ok(got) THEN
        LET parsed == ResponseJson(got)
            detail == IF parsed.state = "rejected" THEN EmptyObject ELSE parsed.value
            message == IF DetailOf(detail) # "" THEN DetailOf(detail)
                       ELSE IF got.statusText # "" THEN got.statusText
                       ELSE FallbackMessage
        IN  Rejected(message)
    ELSE ResponseJson(got)

\* API.request with the status text preferred to the body's detail.
requestStatusTextFirst(got) ==
    IF got = NetworkFailure THEN Rejected(FetchFailedMessage)
    ELSE IF ~Ok(got) THEN
        LET parsed == ResponseJson(got)
            detail == IF parsed.state = "rejected" THEN EmptyObject ELSE parsed.value
            message == IF got.statusText # "" THEN got.statusText
                       ELSE IF DetailOf(detail) # "" THEN DetailOf(detail)
                       ELSE FallbackMessage
        IN  Rejected(message)
    ELSE IF got.status = 204 THEN Fulfilled(Null)
    ELSE ResponseJson(got)

\* API.request, from the point where fetch has settled.
request(got) ==
    IF got = NetworkFailure THEN Rejected(FetchFailedMessage)
    ELSE IF ~Ok(got) THEN
        LET parsed == ResponseJson(got)
            detail == IF parsed.state = "rejected" THEN EmptyObject ELSE parsed.value
            message == IF DetailOf(detail) # "" THEN DetailOf(detail)
                       ELSE IF got.statusText # "" THEN got.statusText
                       ELSE FallbackMessage
        IN  Rejected(message)
    ELSE IF got.status = 204 THEN Fulfilled(Null)
    ELSE ResponseJson(got)

----------------------------------------------------------------------------
(* Backend data (the JSON the endpoints answer with)                       *)

\* 0.5, 1.5, 2, 50, 100 ... as fixed-point numbers
TakeProfit(label, offset, volume) ==
    [label |-> label, offset_percent |-> Num(offset), volume_percent |-> Num(volume)]
StopLoss(offset, volume) ==
    [offset_percent |-> Num(offset), volume_percent |-> Num(volume)]

TpLabels == <<"TP1", "TP2">>
TwoTakeProfits == <<TakeProfit("TP1", 100, 5000), TakeProfit("TP2", 250, 5000)>>
OneTakeProfit == <<TakeProfit("TP1", 75, 10000)>>

\* Eleven stop-losses: one more than the page lets a user add.
ManyStopLosses == [i \in 1..11 |-> StopLoss(50, 900)]

IdleState(symbol) ==
    [symbol |-> symbol,
     config |-> [entry_amount |-> Num(10000),
                 take_profits |-> TwoTakeProfits,
                 stop_losses |-> <<>>,
                 tp1_dca |-> [enabled |-> FALSE, offset_percent |-> Null,
                              quantity |-> Null]],
     is_running |-> FALSE,
     positions |-> [LONG |-> Null, SHORT |-> Null],
     open_orders |-> <<>>,
     dca_orders |-> <<>>,
     logs |-> <<>>]

LiveState(symbol) ==
    [symbol |-> symbol,
     config |-> [entry_amount |-> Num(25050),
                 take_profits |-> TwoTakeProfits,
                 stop_losses |-> ManyStopLosses,
                 tp1_dca |-> [enabled |-> TRUE, offset_percent |-> Num(150),
                              quantity |-> Num(150)]],
     is_running |-> TRUE,
     positions |-> [LONG |-> Num(150), SHORT |-> Num(0)],
     open_orders |-> <<[id |-> "o1", type |-> "LIMIT", side |-> "SELL",
                        quantity |-> Num(75), status |-> "NEW"]>>,
     dca_orders |-> <<[id |-> "d1", side |-> "BUY", quantity |-> Null,
                       status |-> "NEW"]>>,
     logs |-> <<[timestamp |-> "t1", level |-> "INFO", message |-> "started"],
                [timestamp |-> "t2", level |-> "ERROR", message |-> "rejected"]>>]

\* A state that lists fewer take-profits than a card has rows.
ShortState(symbol) ==
    [LiveState(symbol) EXCEPT !.config.entry_amount = Num(7),
                              !.config.take_profits = OneTakeProfit,
                              !.is_running = FALSE]

InstrumentStates(symbol) == {IdleState(symbol), LiveState(symbol), ShortState(symbol)}

\* The idle instrument once a start-all has started it.
StartedState(symbol) == [IdleState(symbol) EXCEPT !.is_running = TRUE]

\* Zeros and a negative number in the editable fields; DCA enabled at 0.
ZeroState(symbol) ==
    [IdleState(symbol) EXCEPT
        !.config.entry_amount = Num(0),
        !.config.take_profits = <<TakeProfit("TP1", 0, 0), TakeProfit("TP2", 5, 10000)>>,
        !.config.stop_losses = <<StopLoss(0 - 125, 2550)>>,
        !.config.tp1_dca = [enabled |-> TRUE, offset_percent |-> Num(0), quantity |-> Num(0)],
        !.positions = [LONG |-> Num(0), SHORT |-> Num(0 - 5)]]

\* DCA disabled with one of its values kept and the other null; a stop-loss
\* of zeros between two equal ones.
DcaOffState(symbol) ==
    [LiveState(symbol) EXCEPT
        !.config.stop_losses = <<StopLoss(50, 900), StopLoss(0, 0), StopLoss(50, 900)>>,
        !.config.tp1_dca = [enabled |-> FALSE, offset_percent |-> Num(150), quantity |-> Null]]

\* DCA enabled without a quantity (against the data model's invariant).
DcaUnsetState(symbol) ==
    [LiveState(symbol) EXCEPT
        !.config.stop_losses = << >>,
        !.config.tp1_dca = [enabled |-> TRUE, offset_percent |-> Num(150), quantity |-> Null]]

\* Take-profits under labels other than the rows' data-label.
RelabelledState(symbol) ==
    [IdleState(symbol) EXCEPT
        !.config.take_profits = <<TakeProfit("A", 100, 5000), TakeProfit("B", 250, 5000)>>]

\* One take-profit more than a card has rows.
LongState(symbol) ==
    [IdleState(symbol) EXCEPT
        !.config.take_profits = TwoTakeProfits \o <<TakeProfit("TP3", 400, 2500)>>]

----------------------------------------------------------------------------
(* Cards                                                                   *)

Tabs == {"config", "status", "logs"}

RunningLabel == "Rabotaet"       \* lines 165, 167 (transliterated)
StoppedLabel == "Ostanovlen"     \* lines 165, 168 (transliterated)

NoError == ""
NullConfigError == "Cannot read properties of null (reading 'config')"
NoTakeProfitError == "Cannot read properties of undefined (reading 'offset_percent')"
NullInstrumentsError == "Cannot read properties of null (reading 'instruments')"
DcaRequiredError == "DCA enabled: offset and quantity are required"  \* line 124
StopLimitNotice == "At most 10 stop-losses"                            \* line 233
ConfigSavedNotice == "Settings updated"                                \* line 246

\* createStopLossRow(offset, volume): a row of two number inputs.  The
\* defaults are empty texts; a number shows as String(number).
createStopLossRow(offset, volume) ==
    [offset |-> offset, volume |-> volume]

BlankStopLossRow == createStopLossRow(<<>>, <<>>)

\* renderStopLosses: the container emptied, then one row per entry, in order.
renderStopLosses(stopLosses) ==
    [i \in 1..Len(stopLosses) |->
        createStopLossRow(ValueText(stopLosses[i].offset_percent),
                          ValueText(stopLosses[i].volume_percent))]

\* collectStopLosses: one entry per row, in order.
collectStopLosses(rows) ==
    [i \in 1..Len(rows) |->
        [offset_percent |-> ParseFloat(rows[i].offset),
         volume_percent |-> ParseFloat(rows[i].volume)]]

\* Number(x ?? 0).toFixed(2)
Fixed2OrZero(v) == ToFixed2(IF IsNum(v) THEN v.val ELSE 0)

OrderRow(order) ==
    [id |-> order.id, type |-> order.type, side |-> order.side,
     quantity |-> Fixed2OrZero(order.quantity), status |-> order.status]

DcaOrderRow(order) ==
    [id |-> order.id, side |-> order.side,
     quantity |-> Fixed2OrZero(order.quantity), status |-> order.status]

Reverse(seq) == [i \in 1..Len(seq) |-> seq[Len(seq) + 1 - i]]

\* renderInstrument without the write to .status-text (lines 166-168).
renderInstrumentStaleStatusText(card, data) ==
    IF data = Null THEN [card |-> card, error |-> NullConfigError]
    ELSE
    LET cfg == data.config
        written == IF Len(card.tp) <= Len(cfg.take_profits) THEN Len(card.tp)
                   ELSE Len(cfg.take_profits)
        c1 == [card EXCEPT
                 !.entry = ValueText(cfg.entry_amount),
                 !.tp = [i \in 1..Len(card.tp) |->
                           IF i <= written
                           THEN [card.tp[i] EXCEPT
                                   !.offset = ValueText(cfg.take_profits[i].offset_percent),
                                   !.volume = ValueText(cfg.take_profits[i].volume_percent)]
                           ELSE card.tp[i]]]
        c2 == [c1 EXCEPT
                 !.sl = renderStopLosses(cfg.stop_losses),
                 !.dcaEnabled = cfg.tp1_dca.enabled,
                 !.dcaOffset = ValueText(cfg.tp1_dca.offset_percent),
                 !.dcaQuantity = ValueText(cfg.tp1_dca.quantity),
                 !.running = IF data.is_running THEN "true" ELSE "false",
                 !.indicator = IF data.is_running THEN RunningLabel ELSE StoppedLabel,
                 !.long = Fixed2OrZero(data.positions.LONG),
                 !.short = Fixed2OrZero(data.positions.SHORT),
                 !.orders = [i \in 1..Len(data.open_orders) |-> OrderRow(data.open_orders[i])],
                 !.dcaOrders = [i \in 1..Len(data.dca_orders) |-> DcaOrderRow(data.dca_orders[i])],
                 !.logs = Reverse(data.logs)]
    IN  IF written < Len(card.tp) THEN [card |-> c1, error |-> NoTakeProfitError]
        ELSE [card |-> c2, error |-> NoError]

\* renderInstrument whose renderStopLosses does not empty the container
\* first (line 99): the new rows follow the old ones.
renderInstrumentKeepsRows(card, data) ==
    IF data = Null THEN [card |-> card, error |-> NullConfigError]
    ELSE
    LET cfg == data.config
        written == IF Len(card.tp) <= Len(cfg.take_profits) THEN Len(card.tp)
                   ELSE Len(cfg.take_profits)
        c1 == [card EXCEPT
                 !.entry = ValueText(cfg.entry_amount),
                 !.tp = [i \in 1..Len(card.tp) |->
                           IF i <= written
                           THEN [card.tp[i] EXCEPT
                                   !.offset = ValueText(cfg.take_profits[i].offset_percent),
                                   !.volume = ValueText(cfg.take_profits[i].volume_percent)]
                           ELSE card.tp[i]]]
        c2 == [c1 EXCEPT
                 !.sl = card.sl \o renderStopLosses(cfg.stop_losses),
                 !.dcaEnabled = cfg.tp1_dca.enabled,
                 !.dcaOffset = ValueText(cfg.tp1_dca.offset_percent),
                 !.dcaQuantity = ValueText(cfg.tp1_dca.quantity),
                 !.running = IF data.is_running THEN "true" ELSE "false",
                 !.indicator = IF data.is_running THEN RunningLabel ELSE StoppedLabel,
                 !.statusText = IF data.is_running THEN RunningLabel ELSE StoppedLabel,
                 !.long = Fixed2OrZero(data.positions.LONG),
                 !.short = Fixed2OrZero(data.positions.SHORT),
                 !.orders = [i \in 1..Len(data.open_orders) |-> OrderRow(data.open_orders[i])],
                 !.dcaOrders = [i \in 1..Len(data.dca_orders) |-> DcaOrderRow(data.dca_orders[i])],
                 !.logs = Reverse(data.logs)]
    IN  IF written < Len(card.tp) THEN [card |-> c1, error |-> NoTakeProfitError]
        ELSE [card |-> c2, error |-> NoError]

\* renderInstrument that reads everything it needs before its first write:
\* a throw leaves the card as it was.
renderInstrumentAtomic(card, data) ==
    IF data = Null THEN [card |-> card, error |-> NullConfigError]
    ELSE
    LET cfg == data.config
        written == IF Len(card.tp) <= Len(cfg.take_profits) THEN Len(card.tp)
                   ELSE Len(cfg.take_profits)
        c1 == [card EXCEPT
                 !.entry = ValueText(cfg.entry_amount),
                 !.tp = [i \in 1..Len(card.tp) |->
                           IF i <= written
                           THEN [card.tp[i] EXCEPT
                                   !.offset = ValueText(cfg.take_profits[i].offset_percent),
                                   !.volume = ValueText(cfg.take_profits[i].volume_percent)]
                           ELSE card.tp[i]]]
        c2 == [c1 EXCEPT
                 !.sl = renderStopLosses(cfg.stop_losses),
                 !.dcaEnabled = cfg.tp1_dca.enabled,
                 !.dcaOffset = ValueText(cfg.tp1_dca.offset_percent),
                 !.dcaQuantity = ValueText(cfg.tp1_dca.quantity),
                 !.running = IF data.is_running THEN "true" ELSE "false",
                 !.indicator = IF data.is_running THEN RunningLabel ELSE StoppedLabel,
                 !.statusText = IF data.is_running THEN RunningLabel ELSE StoppedLabel,
                 !.long = Fixed2OrZero(data.positions.LONG),
                 !.short = Fixed2OrZero(data.positions.SHORT),
                 !.orders = [i \in 1..Len(data.open_orders) |-> OrderRow(data.open_orders[i])],
                 !.dcaOrders = [i \in 1..Len(data.dca_orders) |-> DcaOrderRow(data.dca_orders[i])],
                 !.logs = Reverse(data.logs)]
    IN  IF written < Len(card.tp) THEN [card |-> card, error |-> NoTakeProfitError]
        ELSE [card |-> c2, error |-> NoError]

\* renderInstrument(card, data): the card after the call and the message of
\* the TypeError it threw, if any.  The writes happen in the order of the
\* code, so a throw leaves the earlier writes in place.
renderInstrument(card, data) ==
    IF data = Null THEN [card |-> card, error |-> NullConfigError]
    ELSE
    LET cfg == data.config
        written == IF Len(card.tp) <= Len(cfg.take_profits) THEN Len(card.tp)
                   ELSE Len(cfg.take_profits)
        c1 == [card EXCEPT
                 !.entry = ValueText(cfg.entry_amount),
                 !.tp = [i \in 1..Len(card.tp) |->
                           IF i <= written
                           THEN [card.tp[i] EXCEPT
                                   !.offset = ValueText(cfg.take_profits[i].offset_percent),
                                   !.volume = ValueText(cfg.take_profits[i].volume_percent)]
                           ELSE card.tp[i]]]
        c2 == [c1 EXCEPT
                 !.sl = renderStopLosses(cfg.stop_losses),
                 !.dcaEnabled = cfg.tp1_dca.enabled,
                 !.dcaOffset = ValueText(cfg.tp1_dca.offset_percent),
                 !.dcaQuantity = ValueText(cfg.tp1_dca.quantity),
                 !.running = IF data.is_running THEN "true" ELSE "false",
                 !.indicator = IF data.is_running THEN RunningLabel ELSE StoppedLabel,
                 !.statusText = IF data.is_running THEN RunningLabel ELSE StoppedLabel,
                 !.long = Fixed2OrZero(data.positions.LONG),
                 !.short = Fixed2OrZero(data.positions.SHORT),
                 !.orders = [i \in 1..Len(data.open_orders) |-> OrderRow(data.open_orders[i])],
                 !.dcaOrders = [i \in 1..Len(data.dca_orders) |-> DcaOrderRow(data.dca_orders[i])],
                 !.logs = Reverse(data.logs)]
    IN  IF written < Len(card.tp) THEN [card |-> c1, error |-> NoTakeProfitError]
        ELSE [card |-> c2, error |-> NoError]

\* collectConfig with the two DCA values read without .trim().
collectConfigNoTrim(symbol, card) ==
    LET dcaOffsetValue == card.dcaOffset
        dcaQuantityValue == card.dcaQuantity
    IN  IF card.dcaEnabled /\ (dcaOffsetValue = <<>> \/ dcaQuantityValue = <<>>)
        THEN [error |-> DcaRequiredError]
        ELSE [error |-> NoError,
              config |->
                [symbol |-> symbol,
                 entry_amount |-> ParseFloat(card.entry),
                 take_profits |->
                    [i \in 1..Len(card.tp) |->
                        [label |-> card.tp[i].label,
                         offset_percent |-> ParseFloat(card.tp[i].offset),
                         volume_percent |-> ParseFloat(card.tp[i].volume)]],
                 stop_losses |-> collectStopLosses(card.sl),
                 tp1_dca |->
                    [enabled |-> card.dcaEnabled,
                     offset_percent |-> IF dcaOffsetValue # <<>>
                                        THEN ParseFloat(dcaOffsetValue) ELSE Null,
                     quantity |-> IF dcaQuantityValue # <<>>
                                  THEN ParseFloat(dcaQuantityValue) ELSE Null]]]

\* collectConfig(card): the config read from the form, or the validation
\* error it throws (lines 123-125).
collectConfig(symbol, card) ==
    LET dcaOffsetValue == Trim(card.dcaOffset)
        dcaQuantityValue == Trim(card.dcaQuantity)
    IN  IF card.dcaEnabled /\ (dcaOffsetValue = <<>> \/ dcaQuantityValue = <<>>)
        THEN [error |-> DcaRequiredError]
        ELSE [error |-> NoError,
              config |->
                [symbol |-> symbol,
                 entry_amount |-> ParseFloat(card.entry),
                 take_profits |->
                    [i \in 1..Len(card.tp) |->
                        [label |-> card.tp[i].label,
                         offset_percent |-> ParseFloat(card.tp[i].offset),
                         volume_percent |-> ParseFloat(card.tp[i].volume)]],
                 stop_losses |-> collectStopLosses(card.sl),
                 tp1_dca |->
                    [enabled |-> card.dcaEnabled,
                     offset_percent |-> IF dcaOffsetValue # <<>>
                                        THEN ParseFloat(dcaOffsetValue) ELSE Null,
                     quantity |-> IF dcaQuantityValue # <<>>
                                  THEN ParseFloat(dcaQuantityValue) ELSE Null]]]

\* The card's skeleton as the server's template lays it out, before any
\* state is written into it.
BlankCard(hasRefresh) ==
    [entry |-> <<>>,
     tp |-> [i \in 1..Len(TpLabels) |-> [label |-> TpLabels[i], offset |-> <<>>, volume |-> <<>>]],
     sl |-> <<>>,
     dcaEnabled |-> FALSE, dcaOffset |-> <<>>, dcaQuantity |-> <<>>,
     running |-> "false", indicator |-> StoppedLabel, statusText |-> StoppedLabel,
     long |-> ToFixed2(0), short |-> ToFixed2(0),
     orders |-> <<>>, dcaOrders |-> <<>>, logs |-> <<>>,
     hasRefresh |-> hasRefresh,
     tabButtons |-> {"config"}, tabSections |-> {"config"}]

\* The card as first served: the template filled from the instrument's state.
ServedCard(state, hasRefresh) == renderInstrument(BlankCard(hasRefresh), state).card

----------------------------------------------------------------------------
(* Bounds and input sets                                                   *)

\* The API calls that may be in flight at once (the code sets no limit).
MaxInFlight == 2
\* The stop-loss rows the add button allows (line 232).
MaxStopLosses == 10

CardSymbols == {"BTCUSDT", "ETHUSDT"}
\* The backend also knows an instrument the page shows no card for.
AllSymbols == CardSymbols \cup {"XRPUSDT"}

\* What a user types into a DCA field: nothing, a blank, a number.
TypedTexts == {<<>>, <<" ">>, <<"1", ".", "5">>}

CardApis == {"updateConfig", "start", "stop", "close", "refreshInstrument"}
GlobalApis == {"startAll", "stopAll"}
ApiMethods == {"listInstruments"} \cup CardApis \cup GlobalApis

NoModal == [type |-> "none"]
Alert(message) == [type |-> "alert", message |-> message]
Confirm(symbol) == [type |-> "confirm", card |-> symbol]

NoCall == [api |-> "none"]
NoSymbol == ""
\* API.start(symbol), API.stop(symbol), ... : the method and its arguments.
Call(api, symbol) == [api |-> api, symbol |-> symbol]
CallWith(api, symbol, payload) == [api |-> api, symbol |-> symbol, payload |-> payload]
\* The call as it waits for its answer.
InFlight(call) == [api |-> call.api, symbol |-> call.symbol]

\* The instrument lists a start-all / stop-all answers with: none, an
\* instrument the page has no card for followed by one card's, both cards'
\* in either order, and lists whose first or last entry has too few
\* take-profits.
InstrumentLists ==
    {<<>>,
     <<StartedState("XRPUSDT"), StartedState("BTCUSDT")>>,
     <<StartedState("ETHUSDT"), StartedState("BTCUSDT")>>,
     <<IdleState("BTCUSDT"), IdleState("ETHUSDT")>>,
     <<ShortState("BTCUSDT"), StartedState("ETHUSDT")>>,
     <<StartedState("BTCUSDT"), ShortState("ETHUSDT")>>}
ManagerStates == {[instruments |-> list] : list \in InstrumentLists}

ErrorBody(detail) == [detail |-> detail]

\* What the backend (or the network) may answer to a call in flight.
FailureAnswers ==
    {NetworkFailure,
     Response(422, "Unprocessable Entity", Json(ErrorBody("invalid config")))}
EmptyAnswers == FailureAnswers \cup {Response(204, "No Content", Unparseable)}
GlobalAnswers ==
    EmptyAnswers \cup {Response(200, "OK", Json(ms)) : ms \in ManagerStates}
CardAnswers ==
    [symbol \in CardSymbols |->
        EmptyAnswers
        \cup {Response(200, "OK", Json(st)) : st \in InstrumentStates(symbol)}]
AnswersTo(call) ==
    IF call.api \in GlobalApis THEN GlobalAnswers ELSE CardAnswers[call.symbol]

----------------------------------------------------------------------------
(* Handlers                                                                *)

RemoveAt(seq, i) == SubSeq(seq, 1, i - 1) \o SubSeq(seq, i + 1, Len(seq))

ApiIdle == UNCHANGED <<fetched, settled>>

\* A handler calls an API client method and awaits it.
Issue(call) ==
    /\ Len(pending) < MaxInFlight
    /\ pending' = Append(pending, InFlight(call))
    /\ lastCall' = call

\* TabClick without the loop that deactivates the sections (lines 61-63).
TabClickKeepsSections(c, b) ==
    /\ modal = NoModal
    /\ cards' = [cards EXCEPT
                   ![c].tabButtons = (cards[c].tabButtons \ Tabs) \cup {b},
                   ![c].tabSections = cards[c].tabSections \cup {b}]
    /\ lastCall' = NoCall
    /\ UNCHANGED <<pending, modal>>
    /\ ApiIdle

\* setupTabs: a click on tab button b of card c (lines 57-67).
TabClick(c, b) ==
    /\ modal = NoModal
    /\ cards' = [cards EXCEPT
                   ![c].tabButtons = (cards[c].tabButtons \ Tabs) \cup {b},
                   ![c].tabSections = (cards[c].tabSections \ Tabs) \cup {b}]
    /\ lastCall' = NoCall
    /\ UNCHANGED <<pending, modal>>
    /\ ApiIdle

\* AddStop with the limit tested by > instead of >=.
AddStopOffByOne(c) ==
    /\ modal = NoModal
    /\ IF Len(cards[c].sl) > MaxStopLosses
       THEN /\ modal' = Alert(StopLimitNotice)
            /\ UNCHANGED cards
       ELSE /\ cards' = [cards EXCEPT ![c].sl = Append(@, BlankStopLossRow)]
            /\ UNCHANGED modal
    /\ lastCall' = NoCall
    /\ UNCHANGED pending
    /\ ApiIdle

\* setupConfigForm: a click on "add stop" (lines 231-237).
AddStop(c) ==
    /\ modal = NoModal
    /\ IF Len(cards[c].sl) >= MaxStopLosses
       THEN /\ modal' = Alert(StopLimitNotice)
            /\ UNCHANGED cards
       ELSE /\ cards' = [cards EXCEPT ![c].sl = Append(@, BlankStopLossRow)]
            /\ UNCHANGED modal
    /\ lastCall' = NoCall
    /\ UNCHANGED pending
    /\ ApiIdle

\* createStopLossRow: a click on row i's own remove button (lines 85-87).
RemoveStop(c, i) ==
    /\ modal = NoModal
    /\ i \in 1..Len(cards[c].sl)
    /\ cards' = [cards EXCEPT ![c].sl = RemoveAt(@, i)]
    /\ lastCall' = NoCall
    /\ UNCHANGED <<pending, modal>>
    /\ ApiIdle

\* The user ticks or unticks dca-enabled.
ToggleDca(c) ==
    /\ modal = NoModal
    /\ cards' = [cards EXCEPT ![c].dcaEnabled = ~@]
    /\ lastCall' = NoCall
    /\ UNCHANGED <<pending, modal>>
    /\ ApiIdle

\* The user types into dca-offset.
TypeDcaOffset(c, text) ==
    /\ modal = NoModal
    /\ cards[c].dcaOffset # text
    /\ cards' = [cards EXCEPT ![c].dcaOffset = text]
    /\ lastCall' = NoCall
    /\ UNCHANGED <<pending, modal>>
    /\ ApiIdle

\* The user types into dca-quantity.
TypeDcaQuantity(c, text) ==
    /\ modal = NoModal
    /\ cards[c].dcaQuantity # text
    /\ cards' = [cards EXCEPT ![c].dcaQuantity = text]
    /\ lastCall' = NoCall
    /\ UNCHANGED <<pending, modal>>
    /\ ApiIdle

\* The user types into entry_amount.
TypeEntry(c, text) ==
    /\ modal = NoModal
    /\ cards[c].entry # text
    /\ cards' = [cards EXCEPT ![c].entry = text]
    /\ lastCall' = NoCall
    /\ UNCHANGED <<pending, modal>>
    /\ ApiIdle

\* The user types into the tp-offset of take-profit row i.
TypeTpOffset(c, i, text) ==
    /\ modal = NoModal
    /\ i \in 1..Len(cards[c].tp)
    /\ cards[c].tp[i].offset # text
    /\ cards' = [cards EXCEPT ![c].tp[i].offset = text]
    /\ lastCall' = NoCall
    /\ UNCHANGED <<pending, modal>>
    /\ ApiIdle

\* The browser fires submit only when every required input is filled
\* (the stop-loss inputs are `required`, lines 77 and 81).
FormValid(card) ==
    \A i \in 1..Len(card.sl) : card.sl[i].offset # <<>> /\ card.sl[i].volume # <<>>

\* setupConfigForm: the submit handler up to its await (lines 239-244), or
\* through its catch when collectConfig throws (lines 247-249).
Submit(c) ==
    /\ modal = NoModal
    /\ FormValid(cards[c])
    /\ LET collected == collectConfig(c, cards[c])
       IN  IF collected.error # NoError
           THEN /\ modal' = Alert(collected.error)
                /\ lastCall' = NoCall
                /\ UNCHANGED pending
           ELSE /\ Issue(CallWith("updateConfig", c, collected.config))
                /\ UNCHANGED modal
    /\ UNCHANGED cards
    /\ ApiIdle

\* setupStatusActions: the start handler up to its await (lines 259-261).
Start(c) ==
    /\ modal = NoModal
    /\ Issue(Call("start", c))
    /\ UNCHANGED <<cards, modal>>
    /\ ApiIdle

\* setupStatusActions: the stop handler up to its await (lines 268-270).
Stop(c) ==
    /\ modal = NoModal
    /\ Issue(Call("stop", c))
    /\ UNCHANGED <<cards, modal>>
    /\ ApiIdle

\* The close handler without its confirm(): the click calls API.close.
CloseClickNoConfirm(c) ==
    /\ modal = NoModal
    /\ Issue(Call("close", c))
    /\ UNCHANGED <<cards, modal>>
    /\ ApiIdle

\* setupStatusActions: the close handler opens confirm() (line 278).
CloseClick(c) ==
    /\ modal = NoModal
    /\ modal' = Confirm(c)
    /\ lastCall' = NoCall
    /\ UNCHANGED <<cards, pending>>
    /\ ApiIdle

\* confirm() answered yes: the close handler up to its await (lines 281-282).
ConfirmAccept(c) ==
    /\ modal = Confirm(c)
    /\ Issue(Call("close", c))
    /\ modal' = NoModal
    /\ UNCHANGED cards
    /\ ApiIdle

\* confirm() answered no: the close handler returns (lines 278-280).
ConfirmDecline(c) ==
    /\ modal = Confirm(c)
    /\ modal' = NoModal
    /\ lastCall' = NoCall
    /\ UNCHANGED <<cards, pending>>
    /\ ApiIdle

\* setupLogRefresh: the refresh handler up to its await (lines 293-296); a
\* card without the button gets no handler.
Refresh(c) ==
    /\ modal = NoModal
    /\ cards[c].hasRefresh
    /\ Issue(Call("refreshInstrument", c))
    /\ UNCHANGED <<cards, modal>>
    /\ ApiIdle

\* initGlobalControls: start-all up to its await (lines 308-310).
StartAll ==
    /\ modal = NoModal
    /\ Issue(Call("startAll", NoSymbol))
    /\ UNCHANGED <<cards, modal>>
    /\ ApiIdle

\* initGlobalControls: stop-all up to its await (lines 317-319).
StopAll ==
    /\ modal = NoModal
    /\ Issue(Call("stopAll", NoSymbol))
    /\ UNCHANGED <<cards, modal>>
    /\ ApiIdle

\* updateAll from instrument i of the list on; forEach stops at the first
\* render that throws.
RECURSIVE updateAllFrom(_, _, _)
updateAllFrom(cs, instruments, i) ==
    IF i > Len(instruments) THEN [cards |-> cs, error |-> NoError]
    ELSE LET instrument == instruments[i]
         IN  IF instrument.symbol \in DOMAIN cs
             THEN LET r == renderInstrument(cs[instrument.symbol], instrument)
                      next == [cs EXCEPT ![instrument.symbol] = r.card]
                  IN  IF r.error # NoError THEN [cards |-> next, error |-> r.error]
                      ELSE updateAllFrom(next, instruments, i + 1)
             ELSE updateAllFrom(cs, instruments, i + 1)

\* updateAll with each render in its own try/catch: a render that throws is
\* skipped, the rest of the list is rendered and nothing is thrown.
RECURSIVE updateAllSkippingFrom(_, _, _)
updateAllSkippingFrom(cs, instruments, i) ==
    IF i > Len(instruments) THEN [cards |-> cs, error |-> NoError]
    ELSE LET instrument == instruments[i]
         IN  IF instrument.symbol \in DOMAIN cs
             THEN LET r == renderInstrument(cs[instrument.symbol], instrument)
                  IN  updateAllSkippingFrom([cs EXCEPT ![instrument.symbol] = r.card],
                                            instruments, i + 1)
             ELSE updateAllSkippingFrom(cs, instruments, i + 1)
updateAllSkipsFailures(cs, managerState) ==
    IF managerState = Null THEN [cards |-> cs, error |-> NullInstrumentsError]
    ELSE updateAllSkippingFrom(cs, managerState.instruments, 1)

\* updateAll that renders the first listed instrument only.
updateAllFirstOnly(cs, managerState) ==
    IF managerState = Null THEN [cards |-> cs, error |-> NullInstrumentsError]
    ELSE LET instruments == managerState.instruments
         IN  updateAllFrom(cs, IF instruments = << >> THEN << >>
                               ELSE <<instruments[1]>>, 1)

\* updateAll(managerState): the page after the call, and the error thrown.
updateAll(cs, managerState) ==
    IF managerState = Null THEN [cards |-> cs, error |-> NullInstrumentsError]
    ELSE updateAllFrom(cs, managerState.instruments, 1)

\* Resume with an empty catch block: a rejected call shows no notification.
ResumeSilent(cs, call, outcome) ==
    IF outcome.state = "rejected"
    THEN [cards |-> cs, modal |-> NoModal]
    ELSE IF call.api \in GlobalApis
    THEN LET r == updateAll(cs, outcome.value)
         IN  [cards |-> r.cards,
              modal |-> IF r.error # NoError THEN Alert(r.error) ELSE NoModal]
    ELSE LET r == renderInstrument(cs[call.symbol], outcome.value)
         IN  [cards |-> [cs EXCEPT ![call.symbol] = r.card],
              modal |-> IF r.error # NoError THEN Alert(r.error)
                        ELSE IF call.api = "updateConfig" THEN Alert(ConfigSavedNotice)
                        ELSE NoModal]

\* Resume with the success notification of line 246 moved behind the
\* try/catch, so that it is (also) what a failed submit ends with.
ResumeSavedAfterCatch(cs, call, outcome) ==
    IF outcome.state = "rejected"
    THEN [cards |-> cs,
          modal |-> IF call.api = "updateConfig" THEN Alert(ConfigSavedNotice)
                    ELSE Alert(outcome.message)]
    ELSE IF call.api \in GlobalApis
    THEN LET r == updateAll(cs, outcome.value)
         IN  [cards |-> r.cards,
              modal |-> IF r.error # NoError THEN Alert(r.error) ELSE NoModal]
    ELSE LET r == renderInstrument(cs[call.symbol], outcome.value)
         IN  [cards |-> [cs EXCEPT ![call.symbol] = r.card],
              modal |-> IF r.error # NoError THEN Alert(r.error)
                        ELSE IF call.api = "updateConfig" THEN Alert(ConfigSavedNotice)
                        ELSE NoModal]

\* Resume with a guard for an empty answer: with no data there is nothing
\* to render and the handler goes on as after a render.
ResumeSkipsEmpty(cs, call, outcome) ==
    IF outcome.state = "rejected"
    THEN [cards |-> cs, modal |-> Alert(outcome.message)]
    ELSE IF call.api \in GlobalApis
    THEN LET r == updateAll(cs, outcome.value)
         IN  [cards |-> r.cards,
              modal |-> IF r.error # NoError THEN Alert(r.error) ELSE NoModal]
    ELSE LET r == IF outcome.value = Null
                  THEN [card |-> cs[call.symbol], error |-> NoError]
                  ELSE renderInstrument(cs[call.symbol], outcome.value)
         IN  [cards |-> [cs EXCEPT ![call.symbol] = r.card],
              modal |-> IF r.error # NoError THEN Alert(r.error)
                        ELSE IF call.api = "updateConfig" THEN Alert(ConfigSavedNotice)
                        ELSE NoModal]

\* Resume where only the submit handler writes the config form: the other
\* handlers render the answer and put the form's fields back.
ResumeKeepsForm(cs, call, outcome) ==
    IF outcome.state = "rejected"
    THEN [cards |-> cs, modal |-> Alert(outcome.message)]
    ELSE IF call.api \in GlobalApis
    THEN LET r == updateAll(cs, outcome.value)
         IN  [cards |-> [c \in DOMAIN cs |->
                           [r.cards[c] EXCEPT
                              !.entry = cs[c].entry, !.tp = cs[c].tp, !.sl = cs[c].sl,
                              !.dcaEnabled = cs[c].dcaEnabled,
                              !.dcaOffset = cs[c].dcaOffset,
                              !.dcaQuantity = cs[c].dcaQuantity]],
              modal |-> IF r.error # NoError THEN Alert(r.error) ELSE NoModal]
    ELSE LET r == renderInstrument(cs[call.symbol], outcome.value)
             c == cs[call.symbol]
         IN  [cards |-> [cs EXCEPT ![call.symbol] =
                           IF call.api = "updateConfig" THEN r.card
                           ELSE [r.card EXCEPT
                                   !.entry = c.entry, !.tp = c.tp, !.sl = c.sl,
                                   !.dcaEnabled = c.dcaEnabled,
                                   !.dcaOffset = c.dcaOffset,
                                   !.dcaQuantity = c.dcaQuantity]],
              modal |-> IF r.error # NoError THEN Alert(r.error)
                        ELSE IF call.api = "updateConfig" THEN Alert(ConfigSavedNotice)
                        ELSE NoModal]

\* The rest of a handler once its awaited call has settled as `outcome`:
\* the page it leaves and the notification it ends with.
Resume(cs, call, outcome) ==
    IF outcome.state = "rejected"
    THEN [cards |-> cs, modal |-> Alert(outcome.message)]
    ELSE IF call.api \in GlobalApis
    THEN LET r == updateAll(cs, outcome.value)
         IN  [cards |-> r.cards,
              modal |-> IF r.error # NoError THEN Alert(r.error) ELSE NoModal]
    ELSE LET r == renderInstrument(cs[call.symbol], outcome.value)
         IN  [cards |-> [cs EXCEPT ![call.symbol] = r.card],
              modal |-> IF r.error # NoError THEN Alert(r.error)
                        ELSE IF call.api = "updateConfig" THEN Alert(ConfigSavedNotice)
                        ELSE NoModal]

\* Respond with a retry: a rejected call is issued again.
RespondRetries(i, got) ==
    /\ modal = NoModal
    /\ i \in 1..Len(pending)
    /\ got \in AnswersTo(pending[i])
    /\ LET after == Resume(cards, pending[i], request(got))
       IN  /\ cards' = after.cards
           /\ modal' = after.modal
    /\ pending' = IF request(got).state = "rejected"
                  THEN Append(RemoveAt(pending, i), pending[i])
                  ELSE RemoveAt(pending, i)
    /\ lastCall' = NoCall
    /\ ApiIdle

\* Arrive with a guard against stale answers: an answer that comes while a
\* later call is in flight is dropped.
ArriveLatestOnly(i, got) ==
    /\ modal = NoModal
    /\ i \in 1..Len(pending)
    /\ got \in AnswersTo(pending[i])
    /\ pending' = RemoveAt(pending, i)
    /\ lastCall' = NoCall
    /\ LET after == Resume(cards, pending[i], request(got))
       IN  IF i = Len(pending)
           THEN modal' = after.modal /\ cards' = after.cards
           ELSE UNCHANGED <<modal, cards>>

\* The answer to the i-th call in flight arrives: API.request settles and
\* the handler awaiting it runs on.
Arrive(i, got) ==
    /\ modal = NoModal
    /\ i \in 1..Len(pending)
    /\ got \in AnswersTo(pending[i])
    /\ pending' = RemoveAt(pending, i)
    /\ lastCall' = NoCall
    /\ LET after == Resume(cards, pending[i], request(got))
       IN  /\ modal' = after.modal
           /\ cards' = after.cards

\* The answer to the i-th call in flight arrives and its handler runs on.
Respond(i, got) ==
    /\ Arrive(i, got)
    /\ ApiIdle

\* The user closes the alert; the handler that raised it ends.
Dismiss ==
    /\ modal.type = "alert"
    /\ modal' = NoModal
    /\ lastCall' = NoCall
    /\ UNCHANGED <<cards, pending>>
    /\ ApiIdle

----------------------------------------------------------------------------
(* API.request in isolation                                                *)

NoFetch == [call |-> NoCall]

AnyStatus == {200, 201, 204, 400, 404, 500}
AnyStatusText == {"", "Bad Gateway"}
AnyBody ==
    {Unparseable, Json(EmptyObject), Json(ErrorBody("X")),
     Json(ErrorBody("invalid config")), Json(IdleState("BTCUSDT")),
     Json([instruments |-> <<LiveState("ETHUSDT")>>])}
AnyAnswer ==
    {NetworkFailure}
    \cup {Response(st, tx, b) : st \in AnyStatus, tx \in AnyStatusText, b \in AnyBody}

\* One call of every API client method (lines 18-51).
AnyCall ==
    {Call("listInstruments", NoSymbol), Call("startAll", NoSymbol), Call("stopAll", NoSymbol)}
    \cup {Call(api, "BTCUSDT") : api \in CardApis \ {"updateConfig"}}
    \cup {CallWith("updateConfig", "BTCUSDT",
                   collectConfig("BTCUSDT", ServedCard(IdleState("BTCUSDT"), TRUE)).config)}

PageIdle ==
    /\ cards = << >>
    /\ pending = << >>
    /\ modal = NoModal
    /\ lastCall = NoCall

\* Every API client method returns this.request(...): the promise settles
\* as API.request does on what fetch gave.
Settle ==
    /\ fetched # NoFetch
    /\ settled = Unsettled
    /\ settled' = request(fetched.got)
    /\ UNCHANGED <<cards, pending, modal, lastCall, fetched>>

InitRequest ==
    /\ PageIdle
    /\ fetched \in {[call |-> call, got |-> got] : call \in AnyCall, got \in AnyAnswer}
    /\ settled = Unsettled

NextRequest == Settle

SpecRequest == InitRequest /\ [][NextRequest]_vars

----------------------------------------------------------------------------
(* renderInstrument and collectConfig in isolation                         *)

\* The states rendered: see the definitions of each.
RenderInputs ==
    {IdleState("BTCUSDT"), LiveState("BTCUSDT"), StartedState("BTCUSDT"),
     ShortState("BTCUSDT"), ZeroState("BTCUSDT"), DcaOffState("BTCUSDT"),
     DcaUnsetState("BTCUSDT"), RelabelledState("BTCUSDT"), LongState("BTCUSDT")}

\* A card whose form the user has edited since it was rendered.
EditedCard ==
    [ServedCard(LiveState("BTCUSDT"), TRUE) EXCEPT
        !.entry = <<"9", "9">>,
        !.tp[1].offset = <<"3">>,
        !.tp[2].volume = << >>,
        !.sl = SubSeq(@, 1, 2) \o <<createStopLossRow(<<"7">>, <<"8">>)>>,
        !.dcaEnabled = FALSE,
        !.dcaOffset = <<" ">>,
        !.dcaQuantity = <<"1", ".", "5">>]

\* What a card holds before a render.
PriorCards ==
    {BlankCard(TRUE), ServedCard(IdleState("BTCUSDT"), TRUE),
     ServedCard(LiveState("BTCUSDT"), TRUE), EditedCard}

\* The data handed to renderInstrument.
RenderOf(data) == [call |-> NoCall, data |-> data]

\* renderInstrument(card, data) is called on card c and returns or throws.
Render(c) ==
    /\ modal = NoModal
    /\ fetched # NoFetch
    /\ LET r == renderInstrument(cards[c], fetched.data)
       IN  /\ cards' = [cards EXCEPT ![c] = r.card]
           /\ settled' = IF r.error = NoError THEN Fulfilled(c) ELSE Rejected(r.error)
    /\ lastCall' = NoCall
    /\ UNCHANGED <<pending, modal, fetched>>

InitRender ==
    /\ cards \in [CardSymbols -> PriorCards]
    /\ pending = << >>
    /\ modal = NoModal
    /\ lastCall = NoCall
    /\ fetched \in {RenderOf(data) : data \in RenderInputs}
    /\ settled = Unsettled

NextRender ==
    \/ \E c \in DOMAIN cards : Render(c)
    \/ \E c \in DOMAIN cards : Submit(c)
    \/ Dismiss

SpecRender == InitRender /\ [][NextRender]_vars

----------------------------------------------------------------------------
(* Answers out of order                                                    *)

\* The arrivals the log below keeps.
MaxArrivals == 2

\* One arrival: the call answered, its place among the calls then in flight
\* (in issue order), and how its promise settled.
Arrival(inFlight, i, outcome) ==
    [call |-> inFlight[i], position |-> i, inFlight |-> inFlight, outcome |-> outcome]

RaceAnswers(call) ==
    {Response(200, "OK", Json(st)) :
        st \in {IdleState(call.symbol), LiveState(call.symbol)}}

\* An answer arrives and is logged (here `settled` is the log of the
\* promises settled so far, in order of arrival).
ArriveLogged ==
    /\ Len(settled) < MaxArrivals
    /\ \E i \in 1..Len(pending) : \E got \in RaceAnswers(pending[i]) :
          /\ Arrive(i, got)
          /\ settled' = Append(settled, Arrival(pending, i, request(got)))
    /\ UNCHANGED fetched

\* One card; the user clicks start and stop at will.
InitRace ==
    /\ cards = [c \in {"ETHUSDT"} |-> ServedCard(IdleState(c), FALSE)]
    /\ pending = << >>
    /\ modal = NoModal
    /\ lastCall = NoCall
    /\ fetched = NoFetch
    /\ settled = << >>

NextRace ==
    \/ \E c \in DOMAIN cards : Start(c)
    \/ \E c \in DOMAIN cards : Stop(c)
    \/ ArriveLogged

SpecRace == InitRace /\ [][NextRace]_vars

----------------------------------------------------------------------------
(* Specifications of the page                                              *)

InitApi ==
    /\ fetched = NoFetch
    /\ settled = Unsettled

InitHandlers ==
    /\ pending = << >>
    /\ modal = NoModal
    /\ lastCall = NoCall
    /\ InitApi

\* Tabs: two cards whose markup may mark any buttons and sections active.
\* (Only the config tab is served as the one active pair.)
TabMarkup ==
    {m \in (SUBSET Tabs) \X (SUBSET Tabs) :
        m[1] = m[2] /\ Cardinality(m[1]) = 1 => m[1] = {"config"}}

InitTabs ==
    /\ cards \in
         [CardSymbols ->
            {[ServedCard(IdleState("BTCUSDT"), TRUE) EXCEPT
                 !.tabButtons = m[1], !.tabSections = m[2]] : m \in TabMarkup}]
    /\ InitHandlers

NextTabs == \E c \in DOMAIN cards, b \in Tabs : TabClick(c, b)

SpecTabs == InitTabs /\ [][NextTabs]_vars

\* Stop-loss rows: one card served with no rows or with ten different rows.
TenStopLosses == [i \in 1..10 |-> StopLoss(50 * i, 1000)]

InitStops ==
    /\ \E list \in {<<>>, TenStopLosses} :
         cards = [c \in {"BTCUSDT"} |->
                    ServedCard([IdleState(c) EXCEPT !.config.stop_losses = list], TRUE)]
    /\ InitHandlers

NextStops ==
    \/ \E c \in DOMAIN cards : AddStop(c)
    \/ \E c \in DOMAIN cards : \E i \in 1..Len(cards[c].sl) : RemoveStop(c, i)
    \/ Dismiss

SpecStops == InitStops /\ [][NextStops]_vars

\* The answer to some call in flight arrives.
Answer == \E i \in 1..Len(pending) : \E got \in AnswersTo(pending[i]) : Respond(i, got)

\* One card with its form: the user edits the DCA fields, submits and
\* refreshes; the backend answers.
FormEdits ==
    \E c \in DOMAIN cards :
       \/ ToggleDca(c)
       \/ \E text \in TypedTexts : TypeDcaOffset(c, text)
       \/ \E text \in TypedTexts : TypeDcaQuantity(c, text)

InitForm ==
    /\ cards = [c \in {"BTCUSDT"} |-> ServedCard(IdleState(c), TRUE)]
    /\ InitHandlers

NextForm ==
    \/ FormEdits
    \/ \E c \in DOMAIN cards : Submit(c)
    \/ \E c \in DOMAIN cards : Refresh(c)
    \/ Answer
    \/ Dismiss

SpecForm == InitForm /\ [][NextForm]_vars

\* Two cards and every handler that calls the backend, the form's DCA
\* checkbox included; the backend fails or answers with the live state (the
\* started states of both cards, to the global buttons).
PlainAnswers(call) ==
    FailureAnswers
    \cup (IF call.api \in GlobalApis
          THEN {Response(200, "OK",
                         Json([instruments |-> <<StartedState("ETHUSDT"),
                                                 StartedState("BTCUSDT")>>]))}
          ELSE {Response(200, "OK", Json(LiveState(call.symbol)))})

PlainAnswer ==
    \E i \in 1..Len(pending) : \E got \in PlainAnswers(pending[i]) : Respond(i, got)

NextPage ==
    \/ \E c \in DOMAIN cards : ToggleDca(c)
    \/ \E c \in DOMAIN cards : Submit(c)
    \/ \E c \in DOMAIN cards : Start(c)
    \/ \E c \in DOMAIN cards : Stop(c)
    \/ \E c \in DOMAIN cards : CloseClick(c)
    \/ \E c \in DOMAIN cards : ConfirmAccept(c)
    \/ \E c \in DOMAIN cards : ConfirmDecline(c)
    \/ \E c \in DOMAIN cards : Refresh(c)
    \/ StartAll
    \/ StopAll
    \/ PlainAnswer
    \/ Dismiss

\* Two cards (only the first has a refresh button): the form's submit, the
\* status, refresh and global buttons; the backend answers.
Init ==
    /\ cards = [c \in CardSymbols |-> ServedCard(IdleState(c), c = "BTCUSDT")]
    /\ InitHandlers

Next ==
    \/ \E c \in DOMAIN cards : Submit(c)
    \/ \E c \in DOMAIN cards : Start(c)
    \/ \E c \in DOMAIN cards : Stop(c)
    \/ \E c \in DOMAIN cards : CloseClick(c)
    \/ \E c \in DOMAIN cards : ConfirmAccept(c)
    \/ \E c \in DOMAIN cards : ConfirmDecline(c)
    \/ \E c \in DOMAIN cards : Refresh(c)
    \/ StartAll
    \/ StopAll
    \/ Answer
    \/ Dismiss

Spec == Init /\ [][Next]_vars

SpecPage == Init /\ [][NextPage]_vars

\* Edits while a call is in flight.  One card; a handler is started only
\* when no call is in flight, the user edits the form only while one is, and
\* every answer is a state the card can render: so an edit found in the form
\* when an answer arrives was made while that call was in flight.

\* The rows the user adds on top of those served.
MaxAddedRows == 1
\* What the user types.
UserText == <<"9">>

\* The user's edits visible in a card's form: a typed entry_amount,
\* take-profit offset or DCA offset, an added (blank) stop-loss row, served
\* stop-loss rows of which some were removed.
EditsIn(card) ==
    (IF card.entry = UserText THEN {"entry_amount"} ELSE {})
    \cup (IF \E i \in 1..Len(card.tp) : card.tp[i].offset = UserText
          THEN {"take-profit"} ELSE {})
    \cup (IF card.dcaOffset = UserText \/ card.dcaQuantity = UserText
          THEN {"dca"} ELSE {})
    \cup (IF \E i \in 1..Len(card.sl) : card.sl[i] = BlankStopLossRow
          THEN {"row added"} ELSE {})
    \cup (IF /\ card.sl # << >>
             /\ card.sl[1] # BlankStopLossRow
             /\ Len(card.sl) < Len(ManyStopLosses)
          THEN {"row removed"} ELSE {})

EditInFlight ==
    /\ pending # << >>
    /\ \E c \in DOMAIN cards :
          \/ TypeEntry(c, UserText)
          \/ \E i \in 1..Len(cards[c].tp) : TypeTpOffset(c, i, UserText)
          \/ TypeDcaOffset(c, UserText)
          \/ Len(cards[c].sl) < MaxAddedRows /\ AddStop(c)
          \/ \E i \in 1..Len(cards[c].sl) : RemoveStop(c, i)

\* The backend answers a card's call with the live state and a global call
\* with the idle states of both instruments.
EditAnswers(call) ==
    IF call.api \in GlobalApis
    THEN {Response(200, "OK",
                   Json([instruments |-> <<IdleState("BTCUSDT"), IdleState("ETHUSDT")>>]))}
    ELSE {Response(200, "OK", Json(LiveState(call.symbol)))}

\* An answer arrives (here `settled` keeps, per card, the edits that were in
\* its form when the last answer arrived).
ArriveOverEdits ==
    \E i \in 1..Len(pending) : \E got \in EditAnswers(pending[i]) :
       /\ Arrive(i, got)
       /\ settled' = [c \in DOMAIN cards |-> EditsIn(cards[c])]
       /\ UNCHANGED fetched

InitEdits ==
    /\ cards = [c \in {"BTCUSDT"} |-> ServedCard(IdleState(c), TRUE)]
    /\ pending = << >>
    /\ modal = NoModal
    /\ lastCall = NoCall
    /\ fetched = NoFetch
    /\ settled = [c \in {"BTCUSDT"} |-> {}]

NextEdits ==
    \/ EditInFlight
    \/ pending = << >> /\ \E c \in DOMAIN cards : Start(c)
    \/ pending = << >> /\ \E c \in DOMAIN cards : Stop(c)
    \/ pending = << >> /\ \E c \in DOMAIN cards : CloseClick(c)
    \/ \E c \in DOMAIN cards : ConfirmAccept(c)
    \/ \E c \in DOMAIN cards : ConfirmDecline(c)
    \/ pending = << >> /\ \E c \in DOMAIN cards : Refresh(c)
    \/ pending = << >> /\ StartAll
    \/ pending = << >> /\ StopAll
    \/ ArriveOverEdits

SpecEdits == InitEdits /\ [][NextEdits]_vars

----------------------------------------------------------------------------
(* Claims                                                                  *)

\* C1: from a stop-loss container of at most 10 rows, clicks on "add stop"
\* and on rows' remove buttons never leave more than 10 rows: an add click
\* at 10 rows changes no row and only opens the notification, an add click
\* below 10 appends exactly one (blank) row, and a remove click on row i
\* deletes that row and no other.
C1_StopLossCap ==
    /\ [](\A c \in DOMAIN cards : Len(cards[c].sl) <= 10)
    /\ [][\A c \in DOMAIN cards :
            LET rows == cards[c].sl
                rowsAfter == cards'[c].sl
            IN  /\ AddStop(c) /\ Len(rows) = 10 =>
                     rowsAfter = rows /\ modal' = Alert(StopLimitNotice)
                /\ AddStop(c) /\ Len(rows) < 10 =>
                     /\ Len(rowsAfter) = Len(rows) + 1
                     /\ \A j \in 1..Len(rows) : rowsAfter[j] = rows[j]
                     /\ modal' = NoModal
                /\ \A i \in 1..Len(rows) : RemoveStop(c, i) =>
                     /\ Len(rowsAfter) = Len(rows) - 1
                     /\ \A j \in 1..Len(rowsAfter) :
                          rowsAfter[j] = IF j < i THEN rows[j] ELSE rows[j + 1]
       ]_vars

\* C1 witness: of the ten served rows the first was removed, a blank row was
\* added in its place, and a further add click met the limit.
C1_Witness ==
    LET rows == cards["BTCUSDT"].sl
    IN  /\ Len(rows) = 10
        /\ rows[10] = BlankStopLossRow
        /\ rows[1] = renderStopLosses(TenStopLosses)[2]
        /\ modal = Alert(StopLimitNotice)

\* C2: every config payload the submit handler passes to API.updateConfig
\* has at most 10 stop_losses entries, also after the card's stop-loss list
\* was re-rendered from a server response.
C2_PayloadAtMostTen ==
    lastCall.api = "updateConfig" => Len(lastCall.payload.stop_losses) <= 10

\* A text that is empty once trimmed.
AllBlank(text) == \A k \in 1..Len(text) : text[k] = " "

\* C3: a submit with dca-enabled checked and a blank dca-offset or
\* dca-quantity calls no API method, leaves the card as it is and ends with
\* the validation error as its notification; so every payload passed to
\* updateConfig with tp1_dca.enabled has offset_percent and quantity non-null.
C3_DcaValidatedBeforeCall ==
    /\ [](lastCall.api = "updateConfig" /\ lastCall.payload.tp1_dca.enabled =>
            /\ lastCall.payload.tp1_dca.offset_percent # Null
            /\ lastCall.payload.tp1_dca.quantity # Null)
    /\ [][\A c \in DOMAIN cards :
            /\ Submit(c)
            /\ cards[c].dcaEnabled
            /\ AllBlank(cards[c].dcaOffset) \/ AllBlank(cards[c].dcaQuantity)
            => /\ pending' = pending
               /\ lastCall' = NoCall
               /\ cards' = cards
               /\ modal' = Alert(DcaRequiredError)
       ]_vars

\* C3 witness: the validation error is showing for a form whose DCA is
\* enabled, whose offset holds only a blank and whose quantity is filled.
C3_Witness ==
    /\ modal = Alert(DcaRequiredError)
    /\ cards["BTCUSDT"].dcaEnabled
    /\ cards["BTCUSDT"].dcaOffset = <<" ">>
    /\ cards["BTCUSDT"].dcaQuantity = <<"1", ".", "5">>
    /\ lastCall = NoCall

IsResponse(got) == got.type = "response"

\* C4: whichever API client method was called, a 204 response fulfils the
\* promise with null (it never rejects), and any other ok response whose
\* body is JSON fulfils it with the parsed body.
C4_NoContentIsNull ==
    settled # Unsettled /\ IsResponse(fetched.got) /\ fetched.got.status \in 200..299 =>
        /\ fetched.got.status = 204 => settled = Fulfilled(Null)
        /\ fetched.got.status # 204 /\ fetched.got.body # Unparseable =>
             settled = Fulfilled(fetched.got.body.value)

\* C4 witness: a 204 response, whose body is not JSON, has settled as null.
C4_Witness ==
    /\ fetched # NoFetch
    /\ IsResponse(fetched.got)
    /\ fetched.got.status = 204
    /\ fetched.got.body = Unparseable
    /\ settled = Fulfilled(Null)

\* The detail a non-ok response carries: its JSON body's detail field, if
\* the body parses and has one.
CarriedDetail(got) ==
    IF got.body # Unparseable /\ "detail" \in DOMAIN got.body.value
    THEN got.body.value.detail ELSE ""

\* C5: a non-ok response rejects the promise with the body's detail as the
\* message if there is one, else the status text, else the generic
\* fallback; a body that is not JSON counts as having no detail.
C5_ErrorMessagePriority ==
    settled # Unsettled /\ IsResponse(fetched.got) /\ fetched.got.status \notin 200..299 =>
        /\ settled.state = "rejected"
        /\ settled.message =
             IF CarriedDetail(fetched.got) # "" THEN CarriedDetail(fetched.got)
             ELSE IF fetched.got.statusText # "" THEN fetched.got.statusText
             ELSE FallbackMessage

\* C5 witness: a non-ok response with a status text and the body
\* {"detail": "X"} has rejected with exactly "X".
C5_Witness ==
    /\ fetched # NoFetch
    /\ IsResponse(fetched.got)
    /\ fetched.got.status = 500
    /\ fetched.got.statusText # ""
    /\ fetched.got.body = Json(ErrorBody("X"))
    /\ settled = Rejected("X")

OneActivePair(card) ==
    \E b \in Tabs : card.tabButtons = {b} /\ card.tabSections = {b}

\* C6: a click on a card's tab button leaves exactly that button active and
\* exactly the section with the same key active, in that card, and a card
\* that shows one matching active pair keeps showing one through any
\* further clicks.
C6_OneActiveTab ==
    [][\A c \in DOMAIN cards :
         /\ \A b \in Tabs : TabClick(c, b) =>
               cards'[c].tabButtons = {b} /\ cards'[c].tabSections = {b}
         /\ OneActivePair(cards[c]) => OneActivePair(cards'[c])
      ]_vars

\* C6 witness: a card served with every button and no section active, or
\* with any other markup, now shows the logs pair alone, next to a card
\* that still has no active tab at all.
C6_Witness ==
    /\ cards["BTCUSDT"].tabButtons = {"logs"}
    /\ cards["BTCUSDT"].tabSections = {"logs"}
    /\ cards["ETHUSDT"].tabButtons = {}
    /\ cards["ETHUSDT"].tabSections = {}

\* The data renders into the card without renderInstrument throwing.
Renders(card, data) == renderInstrument(card, data).error = NoError

\* C7: a submit changes nothing in the card and either calls updateConfig
\* once (no notification yet) or, when validation fails, calls nothing and
\* ends with the error notification.  When the answer arrives, a failed
\* request leaves every card as it is and ends with the error as the one
\* notification, never the success notice; a fulfilled one re-renders the
\* card from the answer and then shows the success notice.
C7_SubmitThenRender ==
    [][\A c \in DOMAIN cards :
         /\ Submit(c) =>
              /\ cards' = cards
              /\ \/ /\ pending' = Append(pending, [api |-> "updateConfig", symbol |-> c])
                    /\ lastCall'.api = "updateConfig"
                    /\ modal' = NoModal
                 \/ /\ pending' = pending
                    /\ lastCall' = NoCall
                    /\ modal' = Alert(DcaRequiredError)
         /\ \A i \in 1..Len(pending) :
              pending[i] = [api |-> "updateConfig", symbol |-> c] =>
                \A got \in AnswersTo(pending[i]) : Respond(i, got) =>
                   LET outcome == request(got)
                   IN  /\ pending' = RemoveAt(pending, i)
                       /\ lastCall' = NoCall
                       /\ outcome.state = "rejected" =>
                            /\ cards' = cards
                            /\ modal' = Alert(outcome.message)
                            /\ modal' # Alert(ConfigSavedNotice)
                       /\ outcome.state = "fulfilled" /\ Renders(cards[c], outcome.value) =>
                            /\ cards' = [cards EXCEPT
                                 ![c] = renderInstrument(cards[c], outcome.value).card]
                            /\ modal' = Alert(ConfigSavedNotice)
      ]_vars

\* C7 witness: the success notice is showing over a card re-rendered from
\* the answer (running, eleven stop-loss rows), with nothing left in flight.
C7_Witness ==
    /\ modal = Alert(ConfigSavedNotice)
    /\ cards["BTCUSDT"].running = "true"
    /\ Len(cards["BTCUSDT"].sl) = 11
    /\ pending = << >>

\* C8: a click on close calls nothing, renders nothing and only opens the
\* confirmation; declining it calls nothing, renders nothing and shows no
\* notification; API.close is called only by the step that accepts it.
C8_CloseNeedsConfirm ==
    [][\A c \in DOMAIN cards :
         /\ CloseClick(c) =>
              /\ pending' = pending /\ cards' = cards /\ lastCall' = NoCall
              /\ modal' = Confirm(c)
         /\ ConfirmDecline(c) =>
              /\ pending' = pending /\ cards' = cards /\ lastCall' = NoCall
              /\ modal' = NoModal
         /\ lastCall' = Call("close", c) =>
              /\ modal = Confirm(c)
              /\ modal' = NoModal
              /\ pending' = Append(pending, [api |-> "close", symbol |-> c])
      ]_vars

\* C8 witness: API.close has just been called for a card, the confirmation
\* having been accepted.
C8_Witness ==
    /\ lastCall = Call("close", "ETHUSDT")
    /\ modal = NoModal
    /\ pending = <<[api |-> "close", symbol |-> "ETHUSDT"]>>

\* C9: a start, stop, accepted close or refresh click puts exactly one call
\* for its card's symbol in flight and renders nothing; when the answer
\* arrives the call is gone and none is issued in its place, no other card
\* changes, a fulfilled answer re-renders the card from it (and ends with no
\* notification) and a rejected one leaves the card as it is.
C9_OneCallOneRender ==
    [][\A c \in DOMAIN cards :
         /\ Start(c) =>
              /\ pending' = Append(pending, [api |-> "start", symbol |-> c])
              /\ lastCall' = Call("start", c) /\ cards' = cards
         /\ Stop(c) =>
              /\ pending' = Append(pending, [api |-> "stop", symbol |-> c])
              /\ lastCall' = Call("stop", c) /\ cards' = cards
         /\ ConfirmAccept(c) =>
              /\ pending' = Append(pending, [api |-> "close", symbol |-> c])
              /\ lastCall' = Call("close", c) /\ cards' = cards
         /\ Refresh(c) =>
              /\ pending' = Append(pending, [api |-> "refreshInstrument", symbol |-> c])
              /\ lastCall' = Call("refreshInstrument", c) /\ cards' = cards
         /\ \A i \in 1..Len(pending) :
              /\ pending[i].symbol = c
              /\ pending[i].api \in {"start", "stop", "close", "refreshInstrument"}
              => \A got \in AnswersTo(pending[i]) : Respond(i, got) =>
                   LET outcome == request(got)
                   IN  /\ pending' = RemoveAt(pending, i)
                       /\ lastCall' = NoCall
                       /\ \A d \in DOMAIN cards \ {c} : cards'[d] = cards[d]
                       /\ outcome.state = "rejected" => cards'[c] = cards[c]
                       /\ outcome.state = "fulfilled" /\ Renders(cards[c], outcome.value) =>
                            /\ cards'[c] = renderInstrument(cards[c], outcome.value).card
                            /\ modal' = NoModal
      ]_vars

\* C9 witness: the second card shows the live state an answer to one of its
\* own buttons carried, the first card is as served, nothing is in flight.
C9_Witness ==
    /\ cards["ETHUSDT"] = ServedCard(LiveState("ETHUSDT"), FALSE)
    /\ cards["BTCUSDT"] = ServedCard(IdleState("BTCUSDT"), TRUE)
    /\ pending = << >>
    /\ modal = NoModal

\* C10: when a start-all or stop-all answer is fulfilled with a list of
\* instruments, every card whose symbol is not in the list is left as it
\* is, and (every listed entry rendering without error) every card whose
\* symbol is in the list is re-rendered from its entry.
C10_FanOut ==
    [][\A i \in 1..Len(pending) :
         pending[i].api \in {"startAll", "stopAll"} =>
           \A got \in AnswersTo(pending[i]) :
              /\ Respond(i, got)
              /\ request(got).state = "fulfilled"
              /\ request(got).value # Null
              => LET list == request(got).value.instruments
                     Listed(c) == \E k \in 1..Len(list) : list[k].symbol = c
                     Entry(c) == list[CHOOSE k \in 1..Len(list) : list[k].symbol = c]
                 IN  \A c \in DOMAIN cards :
                       /\ ~Listed(c) => cards'[c] = cards[c]
                       /\ /\ Listed(c)
                          /\ \A d \in DOMAIN cards : Listed(d) => Renders(cards[d], Entry(d))
                          => cards'[c] = renderInstrument(cards[c], Entry(c)).card
      ]_vars

\* C10 witness: the first card shows the started state that only a
\* start-all / stop-all answer carries (one that also lists an instrument
\* without a card), and the second card, not in that answer, is as served.
C10_Witness ==
    /\ cards["BTCUSDT"] = ServedCard(StartedState("BTCUSDT"), TRUE)
    /\ cards["ETHUSDT"] = ServedCard(IdleState("ETHUSDT"), FALSE)
    /\ modal = NoModal

\* What a card's status display shows: data-running, the indicator's text,
\* the status text.
StatusOf(card) == <<card.running, card.indicator, card.statusText>>
StatusFor(isRunning) ==
    IF isRunning THEN <<"true", RunningLabel, RunningLabel>>
    ELSE <<"false", StoppedLabel, StoppedLabel>>

\* The cards an answer's value is rendered into, and the instrument state
\* each is rendered from.
Targets(call, value) ==
    IF call.api \in GlobalApis
    THEN {c \in DOMAIN cards :
            \E k \in 1..Len(value.instruments) : value.instruments[k].symbol = c}
    ELSE {call.symbol}
EntryFor(call, value, c) ==
    IF call.api \in GlobalApis
    THEN value.instruments[CHOOSE k \in 1..Len(value.instruments) :
                              value.instruments[k].symbol = c]
    ELSE value
\* The answer settled as a value every part of which renders without error.
Renderable(call, outcome) ==
    /\ outcome.state = "fulfilled"
    /\ outcome.value # Null
    /\ \A c \in Targets(call, outcome.value) :
          Renders(cards[c], EntryFor(call, outcome.value, c))

\* C11: in every card the data-running attribute, the indicator's text and
\* the status text agree; an answer rendered into a card leaves them showing
\* the is_running of that answer; and a step changes a card's status display
\* only when it is the arrival of a fulfilled answer.
C11_StatusReflectsServer ==
    /\ [](\A c \in DOMAIN cards : StatusOf(cards[c]) \in {StatusFor(TRUE), StatusFor(FALSE)})
    /\ [][\A c \in DOMAIN cards :
            /\ \A i \in 1..Len(pending) : \A got \in AnswersTo(pending[i]) :
                  /\ Respond(i, got)
                  /\ Renderable(pending[i], request(got))
                  /\ c \in Targets(pending[i], request(got).value)
                  => StatusOf(cards'[c]) =
                        StatusFor(EntryFor(pending[i], request(got).value, c).is_running)
            /\ StatusOf(cards'[c]) # StatusOf(cards[c]) =>
                  \E i \in 1..Len(pending) : \E got \in AnswersTo(pending[i]) :
                     /\ Respond(i, got)
                     /\ request(got).state = "fulfilled"
       ]_vars

\* C11 witness: the stopped first card, its start click answered with
\* is_running = true, shows data-running "true" and the running label in
\* both texts, while the second card still shows stopped.
C11_Witness ==
    /\ StatusOf(cards["BTCUSDT"]) = <<"true", RunningLabel, RunningLabel>>
    /\ cards["BTCUSDT"] = ServedCard(LiveState("BTCUSDT"), TRUE)
    /\ StatusOf(cards["ETHUSDT"]) = <<"false", StoppedLabel, StoppedLabel>>
    /\ pending = << >>
    /\ modal = NoModal

\* The card's take-profit rows carry the labels of the state's entries,
\* one row per entry.
RowsMatch(card, state) ==
    /\ Len(card.tp) = Len(state.config.take_profits)
    /\ \A k \in 1..Len(card.tp) : card.tp[k].label = state.config.take_profits[k].label

\* The data model's invariant: DCA enabled has its offset and quantity.
DcaPresent(config) ==
    config.tp1_dca.enabled =>
        config.tp1_dca.offset_percent # Null /\ config.tp1_dca.quantity # Null

Observable(card) ==
    [entry |-> card.entry,
     tp |-> [k \in 1..Len(card.tp) |-> <<card.tp[k].offset, card.tp[k].volume>>],
     sl |-> card.sl,
     dca |-> <<card.dcaEnabled, card.dcaOffset, card.dcaQuantity>>,
     status |-> StatusOf(card),
     positions |-> <<card.long, card.short>>,
     orders |-> card.orders, dcaOrders |-> card.dcaOrders, logs |-> card.logs]

\* C13: after renderInstrument(card, S) has returned, every field it writes
\* is what rendering S into an empty card gives, whatever the card held
\* before (one stop-loss row per entry of S, the log list in the reverse
\* order of S.logs), and rendering S again changes nothing.
C13_RenderOverwrites ==
    [][\A c \in DOMAIN cards :
         Render(c) /\ settled' = Fulfilled(c) =>
            LET S == fetched.data
                after == cards'[c]
            IN  /\ Observable(after) = Observable(renderInstrument(BlankCard(FALSE), S).card)
                /\ Len(after.sl) = Len(S.config.stop_losses)
                /\ Len(after.logs) = Len(S.logs)
                /\ \A k \in 1..Len(S.logs) : after.logs[k] = S.logs[Len(S.logs) + 1 - k]
                /\ renderInstrument(after, S) = [card |-> after, error |-> NoError]
      ]_vars

\* C13 witness: the same state has been rendered into an empty card and
\* into a card with user edits, and both show the same fields.
C13_Witness ==
    /\ fetched = RenderOf(DcaOffState("BTCUSDT"))
    /\ settled = Fulfilled("ETHUSDT")
    /\ Observable(cards["BTCUSDT"]) = Observable(cards["ETHUSDT"])
    /\ Len(cards["ETHUSDT"].sl) = 3
    /\ cards["ETHUSDT"].dcaOffset = <<"1", ".", "5">>
    /\ cards["ETHUSDT"].dcaQuantity = << >>

\* The click handlers that call the backend can run: the page is not
\* blocked by a dialog and the in-flight bound leaves room.  (A button's
\* handler exists if the button does.)
CanClick == modal = NoModal /\ Len(pending) < MaxInFlight
HandlersRun ==
    /\ ENABLED StartAll
    /\ ENABLED StopAll
    /\ \A c \in DOMAIN cards :
          /\ ENABLED Start(c)
          /\ ENABLED Stop(c)
          /\ ENABLED CloseClick(c)
          /\ cards[c].hasRefresh => ENABLED Refresh(c)

\* C14: a submit whose validation fails, and the arrival of a rejection for
\* a call of any of the seven handlers, change no card, issue no call (the
\* failed one is not retried) and end with the error as one notification,
\* which a dismissal closes; and in every state the page reaches, with or
\* without earlier failures, the click handlers of both cards and of the
\* global buttons run.
C14_FailureIsolated ==
    /\ [](CanClick => HandlersRun)
    /\ [][/\ \A c \in DOMAIN cards :
               Submit(c) /\ collectConfig(c, cards[c]).error # NoError =>
                  /\ cards' = cards
                  /\ pending' = pending
                  /\ lastCall' = NoCall
                  /\ modal' = Alert(collectConfig(c, cards[c]).error)
          /\ \A i \in 1..Len(pending) : \A got \in FailureAnswers :
               Respond(i, got) =>
                  /\ cards' = cards
                  /\ pending' = RemoveAt(pending, i)
                  /\ lastCall' = NoCall
                  /\ modal' = Alert(request(got).message)
          /\ Dismiss => modal' = NoModal /\ cards' = cards /\ pending' = pending
       ]_vars

\* C14 witness: a rejection is showing as the notification while the first
\* card's form has DCA ticked with blank values (its submit fails
\* validation), no card has changed otherwise and a stop-all is in flight.
C14_Witness ==
    /\ modal = Alert("invalid config")
    /\ cards["BTCUSDT"].dcaEnabled
    /\ cards["BTCUSDT"].dcaOffset = << >>
    /\ cards["ETHUSDT"] = ServedCard(IdleState("ETHUSDT"), FALSE)
    /\ pending = <<[api |-> "stopAll", symbol |-> NoSymbol]>>

\* C15: with calls for a card in flight its start and stop buttons still
\* issue further calls; the answers may come in any order; and the card
\* always shows the state carried by the answer that arrived last, whether
\* or not a call issued later was answered before it.
C15_LastArrivalWins ==
    /\ [](\A c \in DOMAIN cards :
            Len(pending) < MaxInFlight => ENABLED Start(c) /\ ENABLED Stop(c))
    /\ [](Len(settled) < MaxArrivals =>
            \A i \in 1..Len(pending) : \A got \in RaceAnswers(pending[i]) :
               ENABLED Arrive(i, got))
    /\ [](settled # << >> =>
            LET last == settled[Len(settled)]
            IN  cards[last.call.symbol] =
                   ServedCard(last.outcome.value, cards[last.call.symbol].hasRefresh))

\* C15 witness: start was clicked, then stop while start was in flight; the
\* answer to stop (stopped) came first and the answer to start (running)
\* after it, and the card shows running: the state of the earlier call.
C15_Witness ==
    /\ Len(settled) = 2
    /\ settled[1].inFlight = <<[api |-> "start", symbol |-> "ETHUSDT"],
                               [api |-> "stop", symbol |-> "ETHUSDT"]>>
    /\ settled[1].position = 2
    /\ settled[1].outcome = Fulfilled(IdleState("ETHUSDT"))
    /\ settled[2].inFlight = <<[api |-> "start", symbol |-> "ETHUSDT"]>>
    /\ settled[2].outcome = Fulfilled(LiveState("ETHUSDT"))
    /\ cards["ETHUSDT"] = ServedCard(LiveState("ETHUSDT"), FALSE)
    /\ pending = << >>

\* The answer re-rendered card c: its render ran and returned (in a
\* fan-out, no earlier render threw).
Rerendered(call, outcome, c) ==
    /\ outcome.state = "fulfilled"
    /\ outcome.value # Null
    /\ IF call.api \in GlobalApis
       THEN LET list == outcome.value.instruments
            IN  \E k \in 1..Len(list) :
                   /\ list[k].symbol = c
                   /\ \A j \in 1..k : list[j].symbol \in DOMAIN cards =>
                         Renders(cards[list[j].symbol], list[j])
       ELSE c = call.symbol /\ Renders(cards[c], outcome.value)

\* The dialog is a failure notification.
FailureNotice(dialog) == dialog.type = "alert" /\ dialog # Alert(ConfigSavedNotice)

\* A call leaves the calls in flight only by being answered (no timeout, no
\* cancellation), and while calls are in flight the click handlers run.
StaysPending ==
    /\ [](pending # << >> /\ CanClick => HandlersRun)
    /\ [][Len(pending') < Len(pending) =>
            \E i \in 1..Len(pending) : \E got \in AnswersTo(pending[i]) : Respond(i, got)
       ]_vars

\* C16 as stated: when the answer to a handler's call arrives, either some
\* card is re-rendered or a failure notification is shown, never both and
\* never neither; until then the call stays in flight and clicks are served.
C16_ExactlyOneOutcome ==
    /\ [][\A i \in 1..Len(pending) : \A got \in AnswersTo(pending[i]) :
            Respond(i, got) =>
               ((\E c \in DOMAIN cards : Rerendered(pending[i], request(got), c))
                  # FailureNotice(modal'))
       ]_vars
    /\ StaysPending

\* C16 as amended: when the answer arrives the handler ends with a failure
\* notification exactly when the call was rejected, the answer was empty or
\* a render threw, and otherwise with every card the answer lists
\* re-rendered from it (which may be no card) and the others unchanged; a
\* rejection or an empty answer changes no card, and only cards the answer
\* lists ever change; until the answer arrives the call stays in flight and
\* clicks are served.
C16_OutcomeByAnswer ==
    /\ [][\A i \in 1..Len(pending) : \A got \in AnswersTo(pending[i]) :
            Respond(i, got) =>
               LET call == pending[i]
                   outcome == request(got)
               IN  /\ FailureNotice(modal') <=> ~Renderable(call, outcome)
                   /\ Renderable(call, outcome) =>
                        \A c \in DOMAIN cards :
                           cards'[c] =
                              IF c \in Targets(call, outcome.value)
                              THEN renderInstrument(cards[c],
                                                    EntryFor(call, outcome.value, c)).card
                              ELSE cards[c]
                   /\ outcome.state = "rejected" => cards' = cards
                   /\ outcome.state = "fulfilled" /\ outcome.value = Null => cards' = cards
                   /\ \A c \in DOMAIN cards : cards'[c] # cards[c] =>
                        /\ outcome.state = "fulfilled"
                        /\ outcome.value # Null
                        /\ c \in Targets(call, outcome.value)
       ]_vars
    /\ StaysPending

\* C16 witness: a start-all / stop-all answer has re-rendered the first card
\* (started) and then thrown on the second card's entry, which lists too few
\* take-profits: a card is re-rendered and a failure notification is shown.
C16_Witness ==
    /\ modal = Alert(NoTakeProfitError)
    /\ cards["BTCUSDT"] = ServedCard(StartedState("BTCUSDT"), TRUE)
    /\ cards["ETHUSDT"].entry = ValueText(ShortState("ETHUSDT").config.entry_amount)
    /\ cards["ETHUSDT"].running = "false"

\* The config form of a card.
ConfigForm(card) ==
    [entry |-> card.entry, tp |-> card.tp, sl |-> card.sl,
     dcaEnabled |-> card.dcaEnabled, dcaOffset |-> card.dcaOffset,
     dcaQuantity |-> card.dcaQuantity]

\* C17: when the answer to start, stop, close, refresh, start-all or stop-all
\* is rendered into a card, the card's config form becomes the form the
\* server's config alone determines (that of the card as served with that
\* state): entry_amount, take-profit rows, stop-loss rows and DCA fields hold
\* the server's values and none of the user's edits is left.
C17_RenderDiscardsEdits ==
    [][\A i \in 1..Len(pending) : \A got \in EditAnswers(pending[i]) :
          Arrive(i, got) =>
             LET call == pending[i]
                 outcome == request(got)
             IN  /\ call.api \in {"start", "stop", "close", "refreshInstrument",
                                  "startAll", "stopAll"}
                 /\ Renderable(call, outcome)
                 /\ \A c \in Targets(call, outcome.value) :
                       /\ ConfigForm(cards'[c]) =
                            ConfigForm(ServedCard(EntryFor(call, outcome.value, c),
                                                  cards[c].hasRefresh))
                       /\ EditsIn(cards'[c]) = {}
    ]_vars

\* C17 witness: while a start-all or stop-all was in flight the user typed
\* an entry_amount, a take-profit offset and a DCA offset and removed a
\* served stop-loss row; its answer has arrived and the form is the idle
\* state's again.
C17_Witness ==
    /\ {"entry_amount", "take-profit", "dca", "row removed"} \subseteq settled["BTCUSDT"]
    /\ pending = << >>
    /\ cards["BTCUSDT"] = ServedCard(IdleState("BTCUSDT"), TRUE)

\* C18: when the call of a card handler (submit, start, stop, close,
\* refresh) is fulfilled with null, as API.request does for a 204, the render
\* throws before it writes anything: no card changes, the handler shows the
\* TypeError's message as its failure notification, and the submit handler
\* does not show its success notification.
C18_EmptyAnswerFails ==
    [][\A i \in 1..Len(pending) : \A got \in AnswersTo(pending[i]) :
          /\ Respond(i, got)
          /\ pending[i].api \in CardApis
          /\ IsResponse(got) /\ got.status = 204
          => /\ request(got) = Fulfilled(Null)
             /\ renderInstrument(cards[pending[i].symbol], Null).card
                   = cards[pending[i].symbol]
             /\ cards' = cards
             /\ modal' = Alert(NullConfigError)
             /\ FailureNotice(modal')
             /\ modal' # Alert(ConfigSavedNotice)
    ]_vars

\* C18 witness: a card that an earlier answer rendered with the live state
\* shows the failure notification of an empty answer, still as rendered.
C18_Witness ==
    /\ modal = Alert(NullConfigError)
    /\ cards["ETHUSDT"] = ServedCard(LiveState("ETHUSDT"), FALSE)
    /\ cards["BTCUSDT"] = ServedCard(IdleState("BTCUSDT"), TRUE)

\* The state lists fewer take-profits than the card has take-profit rows.
TooFew(card, data) == Len(data.config.take_profits) < Len(card.tp)

\* `after` is `before` with entry_amount and the take-profit rows that have
\* an entry in the data overwritten, and nothing else changed.
PartlyRendered(before, after, data) ==
    LET tps == data.config.take_profits
    IN  /\ after.entry = ValueText(data.config.entry_amount)
        /\ Len(after.tp) = Len(before.tp)
        /\ \A r \in 1..Len(before.tp) :
              IF r <= Len(tps)
              THEN /\ after.tp[r].offset = ValueText(tps[r].offset_percent)
                   /\ after.tp[r].volume = ValueText(tps[r].volume_percent)
              ELSE after.tp[r] = before.tp[r]
        /\ after.sl = before.sl
        /\ after.dcaEnabled = before.dcaEnabled
        /\ after.dcaOffset = before.dcaOffset
        /\ after.dcaQuantity = before.dcaQuantity
        /\ StatusOf(after) = StatusOf(before)
        /\ after.long = before.long /\ after.short = before.short
        /\ after.orders = before.orders /\ after.dcaOrders = before.dcaOrders
        /\ after.logs = before.logs

\* Entry k of a start-all / stop-all answer is the first whose render
\* throws for too few take-profits.
FirstTooFew(list, k) ==
    /\ list[k].symbol \in DOMAIN cards
    /\ TooFew(cards[list[k].symbol], list[k])
    /\ \A j \in 1..(k - 1) :
          /\ list[j].symbol # list[k].symbol
          /\ list[j].symbol \in DOMAIN cards => Renders(cards[list[j].symbol], list[j])

\* C19: an answer that lists fewer take-profits than the card has rows
\* leaves the card with entry_amount and the take-profit rows that have an
\* entry overwritten, the first row without one and everything written after
\* the take-profits (stop-loss rows, DCA fields, status, positions, orders,
\* logs) as before, and the handler shows the failure notification; in a
\* start-all / stop-all answer the cards of the instruments listed after
\* the failing one are not rendered.
C19_PartialRender ==
    [][\A i \in 1..Len(pending) : \A got \in AnswersTo(pending[i]) :
          /\ Respond(i, got)
          /\ request(got).state = "fulfilled"
          /\ request(got).value # Null
          => LET call == pending[i]
                 value == request(got).value
             IN  IF call.api \in GlobalApis
                 THEN \A k \in 1..Len(value.instruments) :
                        FirstTooFew(value.instruments, k) =>
                           LET list == value.instruments
                               failing == list[k].symbol
                           IN  /\ PartlyRendered(cards[failing], cards'[failing], list[k])
                               /\ \A j \in (k + 1)..Len(list) :
                                     /\ list[j].symbol \in DOMAIN cards
                                     /\ \A m \in 1..k : list[m].symbol # list[j].symbol
                                     => cards'[list[j].symbol] = cards[list[j].symbol]
                               /\ modal' = Alert(NoTakeProfitError)
                 ELSE TooFew(cards[call.symbol], value) =>
                        /\ PartlyRendered(cards[call.symbol], cards'[call.symbol], value)
                        /\ \A d \in DOMAIN cards \ {call.symbol} : cards'[d] = cards[d]
                        /\ modal' = Alert(NoTakeProfitError)
    ]_vars

\* C19 witness: a started card shows the failure notification with the
\* short state's entry_amount and first take-profit in its form, its second
\* take-profit, (empty) stop-loss list and running status as before, and the
\* other card as served.
C19_Witness ==
    /\ modal = Alert(NoTakeProfitError)
    /\ PartlyRendered(ServedCard(StartedState("BTCUSDT"), TRUE), cards["BTCUSDT"],
                      ShortState("BTCUSDT"))
    /\ cards["BTCUSDT"].running = "true"
    /\ cards["BTCUSDT"].sl = << >>
    /\ cards["BTCUSDT"].tp[1].offset # ServedCard(StartedState("BTCUSDT"), TRUE).tp[1].offset
    /\ cards["ETHUSDT"] = ServedCard(IdleState("ETHUSDT"), FALSE)

====
